---- MODULE Spec2Model ----
(***************************************************************************)
(* Model of zim_converter.py: the single-threaded conversion of a ZIM      *)
(* archive into the articles / title_2_id tables, the entry classification *)
(* of the conversion loop, the title index, the article writer and the     *)
(* image inlining of get_image_link.                                       *)
(*                                                                         *)
(* Strings are sequences of one-character strings, so that lower(),        *)
(* strip(), replace(), startswith(), endswith() and "in" are computed.     *)
(***************************************************************************)
EXTENDS Integers, Sequences, FiniteSets, TLC

VARIABLES
    archive,               \* the ZIM archive: sequence of entry names, id = position - 1
    include_images,        \* process_article_entry._include_images
    compress_images,       \* process_article_entry._compress_images
    imagemagick_available, \* hasattr(get_image_link, '_imagemagick_available')
    pc,                    \* "loop" | "done"  (position in convert_zim)
    id,                    \* next id of all_entry_gen
    title_2_id,            \* table title_2_id: set of rows [id, title_lower_case]
    articles,              \* table articles: set of rows [id, title, page_content_zstd]
    stats,                 \* the stats dict of convert_zim
    num_done,              \* num_done of convert_zim
    committed,             \* database content as of the last con.commit()
    disp,                  \* branch of the conversion loop taken for the last entry
    hist,                  \* the title_2_id writes so far: sequence of [kind, key, id]
    magick_log,            \* the ImageMagick calls so far: sequence of [entry, src, outcome]
    prior,                 \* result of the previous run of the pipeline, or None
    img_call,              \* last direct call of get_image_link: [size, result] or None
    pv,                    \* parse_pageviews.py: its dict, its tables and its input position
    par                    \* the shards of a parallel run and the main database they merge into

vars == <<archive, include_images, compress_images, imagemagick_available, pc, id,
          title_2_id, articles, stats, num_done, committed, disp, hist, magick_log,
          prior, img_call, pv, par>>

None == "None"

\* parse_pageviews.py is not running
NoPageviews == [pc |-> "off"]

\* No parallel run is under way
NoParallel == [pc |-> "off"]

-----------------------------------------------------------------------------
(* Bounds of the model *)

MaxEntries == 3

\* The number of entries of the archive of the long run
LongLen == 1010

\* Lines of one dump and runs of the page-view utility on one database
MaxLines == 3

MaxRuns == 2

\* Workers of a parallel run
MaxShards == 3

-----------------------------------------------------------------------------
(* Program constants *)

MAX_IMAGE_SIZE == 307200

MAX_COMPRESSED_IMAGE_SIZE == 15360

MinContentLength == 100

MinTitleLength == 2

CommitEvery == 500

default_id == 999999

-----------------------------------------------------------------------------
(* Python string operations on sequences of characters *)

UpperCase == <<"A","B","C","D","E","F","G","H","I","J","K","L","M",
               "N","O","P","Q","R","S","T","U","V","W","X","Y","Z">>

LowerCase == <<"a","b","c","d","e","f","g","h","i","j","k","l","m",
               "n","o","p","q","r","s","t","u","v","w","x","y","z">>

UpperSet == {UpperCase[k] : k \in 1..26}

LowerMap == [c \in UpperSet |-> LowerCase[CHOOSE k \in 1..26 : UpperCase[k] = c]]

LowerChar(c) == IF c \in UpperSet THEN LowerMap[c] ELSE c

\* str.lower()
Lower(s) == [k \in 1..Len(s) |-> LowerChar(s[k])]

\* str.startswith(pre)
StartsWith(s, pre) == Len(s) >= Len(pre) /\ SubSeq(s, 1, Len(pre)) = pre

\* str.endswith(suf)
EndsWith(s, suf) ==
    Len(s) >= Len(suf) /\ SubSeq(s, Len(s) - Len(suf) + 1, Len(s)) = suf

\* sub in s
Contains(s, sub) ==
    \E k \in 1..(Len(s) - Len(sub) + 1) : SubSeq(s, k, k + Len(sub) - 1) = sub

\* str.replace(old, new) for a one-character old and new
ReplaceChar(s, old, new) == [k \in 1..Len(s) |-> IF s[k] = old THEN new ELSE s[k]]

\* str.replace(sub, '') : non-overlapping occurrences, left to right
RECURSIVE RemoveAll(_, _)
RemoveAll(s, sub) ==
    IF Len(s) < Len(sub) THEN s
    ELSE IF StartsWith(s, sub) THEN RemoveAll(SubSeq(s, Len(sub) + 1, Len(s)), sub)
    ELSE <<s[1]>> \o RemoveAll(Tail(s), sub)

IsSpace(c) == c \in {" ", "\t", "\n"}

RECURSIVE LStrip(_)
LStrip(s) == IF s # <<>> /\ IsSpace(s[1]) THEN LStrip(Tail(s)) ELSE s

RECURSIVE RStrip(_)
RStrip(s) ==
    IF s # <<>> /\ IsSpace(s[Len(s)]) THEN RStrip(SubSeq(s, 1, Len(s) - 1)) ELSE s

\* str.strip()
Strip(s) == RStrip(LStrip(s))

\* s.split(sep)[-1] for a one-character sep
RECURSIVE LastSegment(_, _)
LastSegment(s, sep) ==
    IF \E k \in 1..Len(s) : s[k] = sep
    THEN LastSegment(Tail(s), sep)
    ELSE s

\* len(base64.b64encode(n bytes))
B64Len(n) == 4 * ((n + 2) \div 3)

-----------------------------------------------------------------------------
(* is_binary_content and get_mime_type *)

image_extensions ==
    << <<".","j","p","g">>, <<".","j","p","e","g">>, <<".","p","n","g">>,
       <<".","g","i","f">>, <<".","s","v","g">>, <<".","w","e","b","p">>,
       <<".","b","m","p">>, <<".","i","c","o">>, <<".","t","i","f","f">> >>

media_extensions ==
    << <<".","m","p","4">>, <<".","w","e","b","m">>, <<".","o","g","g">>,
       <<".","m","p","3">>, <<".","w","a","v">>, <<".","p","d","f">> >>

font_extensions ==
    << <<".","w","o","f","f">>, <<".","w","o","f","f","2">>, <<".","t","t","f">>,
       <<".","o","t","f">>, <<".","e","o","t">> >>

other_extensions ==
    << <<".","z","i","p">>, <<".","g","z">>, <<".","t","a","r">>,
       <<".","e","x","e">>, <<".","b","i","n">> >>

hosting_patterns ==
    << <<"i","m","a","g","e","s","/">>, <<"i","m","g","/">>,
       <<"s","t","a","t","i","c","/">>, <<"a","s","s","e","t","s","/">>,
       <<"m","e","d","i","a","/">>,
       <<".","a","m","a","z","o","n","a","w","s",".","c","o","m","/">>,
       <<"u","p","l","o","a","d">>, <<"t","h","u","m","b","n","a","i","l">>,
       <<"l","o","g","o">> >>

binary_extensions ==
    image_extensions \o media_extensions \o font_extensions \o other_extensions

is_binary_content(path) ==
    LET path_lower == Lower(path)
        exts == binary_extensions
    IN  \/ \E k \in 1..Len(exts) : EndsWith(path_lower, exts[k])
        \/ \E k \in 1..Len(hosting_patterns) : Contains(path_lower, hosting_patterns[k])

get_mime_type(path) ==
    LET ext == Lower(LastSegment(path, "."))
    IN  IF ext = <<"j","p","g">> \/ ext = <<"j","p","e","g">> THEN "jpeg"
        ELSE IF ext = <<"p","n","g">> THEN "png"
        ELSE IF ext = <<"s","v","g">> THEN "svg"
        ELSE IF ext = <<"g","i","f">> THEN "gif"
        ELSE "jpeg"

-----------------------------------------------------------------------------
(* The archive reader: entries, lookup by path, redirect resolution *)

\* One archive entry.  size = len(item.content); ws / core = number of surrounding
\* whitespace characters / of the other characters of the decoded content;
\* decodes = whether bytes(content).decode() succeeds; imgs = the src attributes
\* that img_src_pattern finds; readable = whether the archive can return the entry.
Entry(path, title, is_redirect, target, ws, core, decodes, imgs, size, readable) ==
    [path |-> path, title |-> title, is_redirect |-> is_redirect, target |-> target,
     ws |-> ws, core |-> core, decodes |-> decodes, imgs |-> imgs, size |-> size,
     readable |-> readable]

Article(path, title, ws, core, imgs) ==
    Entry(path, title, FALSE, <<>>, ws, core, TRUE, imgs, ws + core, TRUE)

Redirect(path, title, target) ==
    Entry(path, title, TRUE, target, 0, 0, TRUE, <<>>, 0, TRUE)

Asset(path, title, size) ==
    Entry(path, title, FALSE, <<>>, 0, 0, FALSE, <<>>, size, TRUE)

P_Canine == <<"A","/","C","a","n","i","n","e">>
P_Cat == <<"A","/","C","a","t">>
P_img == <<"I","/","m",".","p","n","g">>
T_Dog == <<"D","o","g">>
T_Ebook == <<"E","b","o","o","k">>

E_special == Article(<<"-","/","f">>, <<"f">>, 0, 500, <<>>)
E_redirDog == Redirect(<<"A","/","D","o","g">>, T_Dog, P_Canine)
E_redirDOG == Redirect(<<"A","/","D","O","G">>, <<"D","O","G">>, P_Cat)
E_Cat == Article(P_Cat, <<"C","a","t">>, 0, 50, <<>>)
E_Canine == Article(P_Canine, <<"C","a","n","i","n","e">>, 0, 500,
                    << <<".",".","/">> \o P_img >>)
E_dog == Article(<<"A","/","d","o","g">>, <<"d","o","g">>, 4, 100, <<>>)
E_CDog == Article(<<"C","/","D","o","g">>, T_Dog, 0, 500, <<>>)
E_WDog == Article(<<"W","/","D","o","g">>, T_Dog, 0, 500, << P_img >>)
E_X == Article(<<"A","/","X">>, <<"X">>, 0, 500, <<>>)
E_img == Asset(P_img, <<"m",".","p","n","g">>, 102400)
E_other == Asset(<<"x",".","p","n","g">>, <<"x">>, 2048)
E_Bad == Entry(<<"A","/","B","a","d">>, <<"B","a","d">>, FALSE, <<>>, 0, 500, FALSE,
               <<>>, 500, TRUE)
E_corrupt == Entry(<<"A","/","Z","z">>, <<"Z","z">>, FALSE, <<>>, 0, 500, TRUE,
                   <<>>, 500, FALSE)
E_Ebook == Article(<<"A","/","E","b","o","o","k">>, T_Ebook, 0, 500, <<>>)
\* The asset at the path of E_img when it is larger than MAX_IMAGE_SIZE
E_bigimg == Asset(P_img, <<"m",".","p","n","g">>, 409600)

\* The asset at the path of E_img whose item cannot be read: the lookup raises
\* an exception that is not a KeyError
E_badimg == Entry(P_img, <<"m",".","p","n","g">>, FALSE, <<>>, 0, 0, TRUE, <<>>,
                  102400, FALSE)

\* An article whose title is 'ebook' in lower case, and a redirect titled 'EBOOK'
E_ebook == Article(<<"A","/","e","b","o","o","k">>, <<"e","b","o","o","k">>, 0, 500, <<>>)

E_redirEBOOK == Redirect(<<"A","/","E","B","O","O","K">>, <<"E","B","O","O","K">>, P_Cat)

\* The assets that get_image_link is called on directly: one per size around the
\* two ceilings.
ProbeNames == <<"p1", "p2", "p3", "p4", "p5", "p6", "p7", "p8", "p9", "p10">>

ProbeSizes == <<0, 1, 11520, 15359, 15360, 15361, 230400, 307199, 307200, 307201>>

P_probe == <<"I","/","p",".","j","p","g">>

\* The entries of the archive of the long run, by index: one special file, one
\* binary file, one other entry, one entry that cannot be read, one page of
\* another namespace, then pages "A/g<k>" at the even indexes and, at the odd
\* ones, redirects "A/R<k>" to the entry before.
DigitChars == <<"0", "1", "2", "3", "4", "5", "6", "7", "8", "9">>

RECURSIVE Dec(_)
Dec(k) == IF k < 10 THEN <<DigitChars[k + 1]>>
          ELSE Dec(k \div 10) \o <<DigitChars[(k % 10) + 1]>>

GenPath(k) ==
    CASE k = 0 -> <<"-", "/", "s">>
      [] k = 1 -> <<"I", "/", "b", ".", "p", "n", "g">>
      [] k = 2 -> <<"o">>
      [] k = 3 -> <<"A", "/", "u">>
      [] k = 4 -> <<"C", "/", "g">> \o Dec(k)
      [] k > 4 /\ k % 2 = 1 -> <<"A", "/", "R">> \o Dec(k)
      [] OTHER -> <<"A", "/", "g">> \o Dec(k)

GenEntry(k) ==
    CASE k = 0 -> Article(GenPath(k), <<"s">>, 0, 500, <<>>)
      [] k = 1 -> Asset(GenPath(k), <<"b">>, 2048)
      [] k = 2 -> Asset(GenPath(k), <<"o">>, 2048)
      [] k = 3 -> Entry(GenPath(k), <<"u">>, FALSE, <<>>, 0, 500, TRUE, <<>>, 500, FALSE)
      [] k > 4 /\ k % 2 = 1 -> Redirect(GenPath(k), <<"R">> \o Dec(k), GenPath(k - 1))
      [] OTHER -> Article(GenPath(k), <<"g">> \o Dec(k), 0, 500, <<>>)

LongName(k) == "e" \o ToString(k)

LongNames == {LongName(k) : k \in 0..(LongLen - 1)}

LongIndex(name) == CHOOSE k \in 0..(LongLen - 1) : LongName(k) = name

\* The entries by name; an archive is a sequence of entry names.
EntryDef(name) ==
    IF name \in LongNames THEN GenEntry(LongIndex(name))
    ELSE IF \E k \in 1..Len(ProbeNames) : ProbeNames[k] = name
    THEN Asset(P_probe, <<"p">>,
               ProbeSizes[CHOOSE k \in 1..Len(ProbeNames) : ProbeNames[k] = name])
    ELSE CASE name = "special" -> E_special
           [] name = "redirDog" -> E_redirDog
           [] name = "redirDOG" -> E_redirDOG
           [] name = "Cat" -> E_Cat
           [] name = "Canine" -> E_Canine
           [] name = "dog" -> E_dog
           [] name = "CDog" -> E_CDog
           [] name = "WDog" -> E_WDog
           [] name = "X" -> E_X
           [] name = "img" -> E_img
           [] name = "other" -> E_other
           [] name = "Bad" -> E_Bad
           [] name = "corrupt" -> E_corrupt
           [] name = "Ebook" -> E_Ebook
           [] name = "badimg" -> E_badimg
           [] name = "bigimg" -> E_bigimg
           [] name = "ebook" -> E_ebook
           [] name = "redirEBOOK" -> E_redirEBOOK

Entries == {"special", "redirDog", "redirDOG", "Cat", "Canine", "dog", "CDog", "WDog",
            "X", "img", "other", "Bad", "corrupt", "Ebook"}

\* The entries of the archives of the runs against a failing store or archive
FaultEntries == {"special", "redirDog", "Canine", "WDog", "img", "badimg", "bigimg",
                 "other", "Bad", "corrupt"}

\* The entries of the archives of the runs that end with the default page
EbookEntries == {"special", "redirEBOOK", "Cat", "ebook", "Ebook", "CDog", "img",
                 "other", "corrupt"}

AllNames == Entries \cup FaultEntries \cup EbookEntries \cup LongNames
                \cup {ProbeNames[k] : k \in 1..Len(ProbeNames)}

EntryTable == [name \in AllNames |-> EntryDef(name)]

EntryOf(name) == EntryTable[name]

\* The archives: up to MaxEntries entries, paths unique within an archive.
UniquePaths(a) ==
    \A j, k \in 1..Len(a) : EntryOf(a[j]).path = EntryOf(a[k]).path => j = k

Archives == UNION {{a \in [1..n -> Entries] : UniquePaths(a)} : n \in 1..MaxEntries}

\* zim.entry_count
entry_count(zim) == Len(zim)

\* zim.get_entry_by_id(id): the entry, or an exception
get_entry_by_id(zim, i) ==
    IF EntryOf(zim[i + 1]).readable
    THEN [raised |-> FALSE, entry |-> EntryOf(zim[i + 1]), index |-> i]
    ELSE [raised |-> TRUE, entry |-> None, index |-> i]

\* The position in the archive of the entry with this path, 0 when there is none
PathPosition(zim, path) ==
    IF \E k \in 1..Len(zim) : EntryOf(zim[k]).path = path
    THEN CHOOSE k \in 1..Len(zim) : EntryOf(zim[k]).path = path
    ELSE 0

Looked(k, entry) ==
    IF entry.readable THEN [raised |-> "no", entry |-> entry, index |-> k - 1]
    ELSE [raised |-> "Exception", entry |-> None, index |-> k - 1]

EntryAt(zim, k) ==
    IF k = 0 THEN [raised |-> "KeyError", entry |-> None, index |-> -1]
    ELSE Looked(k, EntryOf(zim[k]))

\* zim.get_entry_by_path(path): the entry and its index, KeyError when there is none,
\* another exception when the entry cannot be read
get_entry_by_path(zim, path) == EntryAt(zim, PathPosition(zim, path))

\* zim_entry.get_redirect_entry(), then .index
get_redirect_entry(zim, zim_entry) == get_entry_by_path(zim, zim_entry.target)

-----------------------------------------------------------------------------
(* The SQL statements against the schema of setup_db *)

\* setup_db on a new database file: both tables exist and are empty
setup_db == [title_2_id |-> {}, articles |-> {}]

\* con.commit(): the tables as they are on disk, and how many entries of the
\* archive the loop had gone through when they were written
Committed(t2i, arts, upto) == [title_2_id |-> t2i, articles |-> arts, upto |-> upto]

TitleRow(i, key) == [id |-> i, title_lower_case |-> key]

ArticleRow(i, title, blob) == [id |-> i, title |-> title, page_content_zstd |-> blob]

\* INSERT OR REPLACE INTO title_2_id: title_lower_case is the PRIMARY KEY
InsertOrReplaceTitle(tbl, row) ==
    {r \in tbl : r.title_lower_case # row.title_lower_case} \cup {row}

\* INSERT INTO title_2_id: IntegrityError (UNIQUE constraint failed) on a taken key
InsertTitle(tbl, row) ==
    IF \E r \in tbl : r.title_lower_case = row.title_lower_case
    THEN [raised |-> TRUE, tbl |-> tbl]
    ELSE [raised |-> FALSE, tbl |-> tbl \cup {row}]

\* SELECT id FROM title_2_id WHERE title_lower_case = ? ; fetchone()
SelectIdByTitle(tbl, key) ==
    IF \E r \in tbl : r.title_lower_case = key
    THEN (CHOOSE r \in tbl : r.title_lower_case = key).id
    ELSE None

\* UPDATE title_2_id SET id = ? WHERE id = ?
UpdateTitleId(tbl, new_id, cur_id) ==
    {IF r.id = cur_id THEN [r EXCEPT !.id = new_id] ELSE r : r \in tbl}

\* INSERT OR REPLACE INTO articles without the UNIQUE constraint on title
InsertOrReplaceArticle_ById(tbl, row) == {r \in tbl : r.id # row.id} \cup {row}

\* INSERT OR REPLACE INTO articles with a case-insensitive UNIQUE title
InsertOrReplaceArticle_NoCase(tbl, row) ==
    {r \in tbl : r.id # row.id /\ Lower(r.title) # Lower(row.title)} \cup {row}

\* INSERT OR REPLACE INTO articles: id is the PRIMARY KEY, title is UNIQUE
InsertOrReplaceArticle(tbl, row) ==
    {r \in tbl : r.id # row.id /\ r.title # row.title} \cup {row}

\* SELECT COUNT(*) FROM articles WHERE title = ?
CountArticlesByTitle(tbl, title) == Cardinality({r \in tbl : r.title = title})

\* zstd.compress(data, 9, 4)
zstd_compress(data) == [codec |-> "zstd", level |-> 9, data |-> data]

-----------------------------------------------------------------------------
(* Image inlining: compress_image_with_imagemagick, get_image_link,
   replace_img_and_css_html *)

\* What the run of ImageMagick's convert can do: time out, fail to start (another
\* exception), end with a nonzero return code, or write n bytes of output.
ToolOutcome(kind, size) == [kind |-> kind, size |-> size]

\* compress_image_with_imagemagick: the compressed data and 'jpeg', or None, None
compress_image_with_imagemagick(image_size, mime_type, outcome) ==
    IF outcome.kind = "ok" /\ outcome.size < MAX_COMPRESSED_IMAGE_SIZE
    THEN [none |-> FALSE, bytes |-> outcome.size, mime |-> "jpeg"]
    ELSE [none |-> TRUE, bytes |-> 0, mime |-> None]

\* An <img src> of the stored document: still the reference of the archive
\* (kind "src") or a data: link (kind "data") with its MIME type, the bytes that
\* are encoded (the original ones or the recompressed ones) and the encoded size.
SrcRef(src) == [kind |-> "src", src |-> src, mime |-> None, payload |-> None,
                raw |-> 0, b64 |-> 0]

DataLink(src, mime, payload, raw) ==
    [kind |-> "data", src |-> src, mime |-> mime, payload |-> payload,
     raw |-> raw, b64 |-> B64Len(raw)]

NoLink == [raised |-> FALSE, none |-> TRUE, link |-> SrcRef(<<>>), size |-> 0,
           called |-> FALSE]

\* get_image_link whose fallback after a failed recompression skips the
\* MAX_IMAGE_SIZE check
ImageLinkOf_NoCeiling(path, got, compress, available, outcome) ==
    LET original_size == got.entry.size
        try_compress == compress /\ available /\ original_size > MAX_COMPRESSED_IMAGE_SIZE
        compressed == compress_image_with_imagemagick(
                          original_size, get_mime_type(got.entry.path), outcome)
    IN  IF got.raised = "KeyError" THEN NoLink
        ELSE IF got.raised = "Exception" THEN [NoLink EXCEPT !.raised = TRUE]
        ELSE IF try_compress /\ ~compressed.none /\ compressed.bytes > 0
        THEN [raised |-> FALSE, none |-> FALSE,
              link |-> DataLink(path, compressed.mime, "compressed", compressed.bytes),
              size |-> B64Len(compressed.bytes), called |-> TRUE]
        ELSE IF ~try_compress /\ original_size > MAX_IMAGE_SIZE
        THEN NoLink
        ELSE [raised |-> FALSE, none |-> FALSE,
              link |-> DataLink(path, get_mime_type(got.entry.path), "original",
                                original_size),
              size |-> B64Len(original_size), called |-> try_compress]

\* get_image_link that runs ImageMagick whatever compress_images says
ImageLinkOf_AlwaysCompress(path, got, compress, available, outcome) ==
    LET original_size == got.entry.size
        try_compress == original_size > MAX_COMPRESSED_IMAGE_SIZE
        compressed == compress_image_with_imagemagick(
                          original_size, get_mime_type(got.entry.path), outcome)
    IN  IF got.raised = "KeyError" THEN NoLink
        ELSE IF got.raised = "Exception" THEN [NoLink EXCEPT !.raised = TRUE]
        ELSE IF try_compress /\ ~compressed.none /\ compressed.bytes > 0
        THEN [raised |-> FALSE, none |-> FALSE,
              link |-> DataLink(path, compressed.mime, "compressed", compressed.bytes),
              size |-> B64Len(compressed.bytes), called |-> TRUE]
        ELSE IF original_size > MAX_IMAGE_SIZE
        THEN [NoLink EXCEPT !.called = try_compress]
        ELSE [raised |-> FALSE, none |-> FALSE,
              link |-> DataLink(path, get_mime_type(got.entry.path), "original",
                                original_size),
              size |-> B64Len(original_size), called |-> try_compress]

\* get_image_link that lets the failure of the recompression out as an exception
ImageLinkOf_RaisesOnFailure(path, got, compress, available, outcome) ==
    LET original_size == got.entry.size
        try_compress == compress /\ available /\ original_size > MAX_COMPRESSED_IMAGE_SIZE
        compressed == compress_image_with_imagemagick(
                          original_size, get_mime_type(got.entry.path), outcome)
    IN  IF got.raised = "KeyError" THEN NoLink
        ELSE IF got.raised = "Exception" THEN [NoLink EXCEPT !.raised = TRUE]
        ELSE IF try_compress /\ ~compressed.none /\ compressed.bytes > 0
        THEN [raised |-> FALSE, none |-> FALSE,
              link |-> DataLink(path, compressed.mime, "compressed", compressed.bytes),
              size |-> B64Len(compressed.bytes), called |-> TRUE]
        ELSE IF try_compress
        THEN [NoLink EXCEPT !.raised = TRUE, !.called = TRUE]
        ELSE IF original_size > MAX_IMAGE_SIZE
        THEN [NoLink EXCEPT !.called = try_compress]
        ELSE [raised |-> FALSE, none |-> FALSE,
              link |-> DataLink(path, get_mime_type(got.entry.path), "original",
                                original_size),
              size |-> B64Len(original_size), called |-> try_compress]

\* get_image_link after the lookup of the entry (got) at the path
ImageLinkOf(path, got, compress, available, outcome) ==
    LET original_size == got.entry.size
        try_compress == compress /\ available /\ original_size > MAX_COMPRESSED_IMAGE_SIZE
        compressed == compress_image_with_imagemagick(
                          original_size, get_mime_type(got.entry.path), outcome)
    IN  IF got.raised = "KeyError" THEN NoLink
        ELSE IF got.raised = "Exception" THEN [NoLink EXCEPT !.raised = TRUE]
        ELSE IF try_compress /\ ~compressed.none /\ compressed.bytes > 0
        THEN [raised |-> FALSE, none |-> FALSE,
              link |-> DataLink(path, compressed.mime, "compressed", compressed.bytes),
              size |-> B64Len(compressed.bytes), called |-> TRUE]
        ELSE IF original_size > MAX_IMAGE_SIZE
        THEN [NoLink EXCEPT !.called = try_compress]
        ELSE [raised |-> FALSE, none |-> FALSE,
              link |-> DataLink(path, get_mime_type(got.entry.path), "original",
                                original_size),
              size |-> B64Len(original_size), called |-> try_compress]

\* link.replace('../', '')
StripParents(link) == RemoveAll(link, <<".", ".", "/">>)

\* get_image_link(link, zim, compress_images): (data link, encoded size) or
\* (None, 0); raised when the lookup raises anything but KeyError.
\* called: whether ImageMagick was run.
get_image_link(link, zim, compress, available, outcome) ==
    ImageLinkOf(StripParents(link), get_entry_by_path(zim, StripParents(link)),
                compress, available, outcome)

\* html.replace(src, image_link): every reference that still reads src is
\* rewritten; nothing is rewritten when get_image_link returned None.
HtmlReplace(imgs, src, r) ==
    IF r.none THEN imgs
    ELSE [j \in 1..Len(imgs) |->
             IF imgs[j].kind = "src" /\ imgs[j].src = src THEN r.link ELSE imgs[j]]

\* The ImageMagick calls so far, after the call for src
LogCall(log, src, r, outcome) ==
    IF r.called THEN Append(log, [src |-> src, outcome |-> outcome]) ELSE log

\* The loop of replace_img_and_css_html over img_sources[k..]; r is what
\* get_image_link returned for img_sources[k].  (css_links is the empty list, so
\* the stylesheet loop does nothing.)
RECURSIVE ReplaceImgs(_, _, _, _, _, _, _, _)
RECURSIVE ReplaceOne(_, _, _, _, _, _, _, _, _)
ReplaceOne(imgs, img_sources, k, zim, compress, available, outs, log, r) ==
    IF r.raised
    THEN [raised |-> TRUE, imgs |-> imgs,
          log |-> LogCall(log, img_sources[k], r, outs[k])]
    ELSE ReplaceImgs(HtmlReplace(imgs, img_sources[k], r), img_sources, k + 1, zim,
                     compress, available, outs,
                     LogCall(log, img_sources[k], r, outs[k]))

ReplaceImgs(imgs, img_sources, k, zim, compress, available, outs, log) ==
    IF k > Len(img_sources) THEN [raised |-> FALSE, imgs |-> imgs, log |-> log]
    ELSE ReplaceOne(imgs, img_sources, k, zim, compress, available, outs, log,
                    get_image_link(img_sources[k], zim, compress, available, outs[k]))

\* The decoded page: the document it is (doc), its whitespace and other
\* characters, and its image references.
PageContent(zim_entry) ==
    [doc |-> zim_entry.path, ws |-> zim_entry.ws, core |-> zim_entry.core,
     imgs |-> [k \in 1..Len(zim_entry.imgs) |-> SrcRef(zim_entry.imgs[k])]]

Rewritten(html, r) ==
    [raised |-> r.raised, html |-> [html EXCEPT !.imgs = r.imgs], log |-> r.log]

replace_img_and_css_html(html, zim_entry, zim, compress, available, outs) ==
    Rewritten(html, ReplaceImgs(html.imgs, zim_entry.imgs, 1, zim, compress,
                                available, outs, <<>>))

-----------------------------------------------------------------------------
(* process_article_entry *)

\* len(page_content) and len(page_content.strip())
DecodedLen(zim_entry) == zim_entry.ws + zim_entry.core

StrippedLen(zim_entry) == IF zim_entry.core = 0 THEN 0 ELSE zim_entry.core

\* AssignTitle with the IntegrityError swallowed: the owner of a taken key stays
AssignTitle_KeepsOwner(tbl, entry_index, key) ==
    InsertTitle(tbl, TitleRow(entry_index, key)).tbl

\* "First make it findable": INSERT INTO title_2_id, and on the IntegrityError of
\* the taken key the SELECT of its owner and the UPDATE ... WHERE id = cur_id.
AssignTitle(tbl, entry_index, key) ==
    LET ins == InsertTitle(tbl, TitleRow(entry_index, key))
        cur_id == SelectIdByTitle(tbl, key)
    IN  IF ~ins.raised THEN ins.tbl
        ELSE IF cur_id # entry_index THEN UpdateTitleId(tbl, entry_index, cur_id)
        ELSE tbl

\* not zim_entry.title or len(zim_entry.title.strip()) < 2
InvalidTitle(title) == title = <<>> \/ Len(Strip(title)) < MinTitleLength

\* The content filter rejecting only the empty page
MinimalContent_EmptyOnly(zim_entry) == DecodedLen(zim_entry) = 0

\* len(page_content.strip()) < 100
MinimalContent(zim_entry) == StrippedLen(zim_entry) < MinContentLength

\* The second try block with stats['articles_processed'] += 1 as its first
\* statement
StoreArticle_CountsFirst(zim_entry, entry_index, t2, arts, st, rew) ==
    IF InvalidTitle(zim_entry.title)
    THEN [title_2_id |-> t2, articles |-> arts,
          stats |-> [st EXCEPT !.articles_processed = @ + 1], raised |-> FALSE,
          outcome |-> "invalid_title", log |-> <<>>]
    ELSE IF ~zim_entry.decodes
    THEN [title_2_id |-> t2, articles |-> arts,
          stats |-> [st EXCEPT !.articles_processed = @ + 1], raised |-> TRUE,
          outcome |-> "error", log |-> <<>>]
    ELSE IF MinimalContent(zim_entry)
    THEN [title_2_id |-> t2, articles |-> arts,
          stats |-> [st EXCEPT !.articles_processed = @ + 1], raised |-> FALSE,
          outcome |-> "minimal_content", log |-> <<>>]
    ELSE IF rew.raised
    THEN [title_2_id |-> t2, articles |-> arts,
          stats |-> [st EXCEPT !.articles_processed = @ + 1], raised |-> TRUE,
          outcome |-> "error", log |-> rew.log]
    ELSE [title_2_id |-> t2,
          articles |-> InsertOrReplaceArticle(arts,
                           ArticleRow(entry_index,
                                      ReplaceChar(zim_entry.title, "_", " "),
                                      zstd_compress(rew.html))),
          stats |-> [st EXCEPT !.articles_processed = @ + 1],
          raised |-> FALSE, outcome |-> "stored", log |-> rew.log]

\* The second try block of process_article_entry: the filters, the rewriting
\* (rew), the INSERT OR REPLACE INTO articles.  t2 is title_2_id as the first
\* block left it.
StoreArticle(zim_entry, entry_index, t2, arts, st, rew) ==
    IF InvalidTitle(zim_entry.title)
    THEN [title_2_id |-> t2, articles |-> arts, stats |-> st, raised |-> FALSE,
          outcome |-> "invalid_title", log |-> <<>>]
    ELSE IF ~zim_entry.decodes
    THEN [title_2_id |-> t2, articles |-> arts, stats |-> st, raised |-> TRUE,
          outcome |-> "error", log |-> <<>>]
    ELSE IF MinimalContent(zim_entry)
    THEN [title_2_id |-> t2, articles |-> arts, stats |-> st, raised |-> FALSE,
          outcome |-> "minimal_content", log |-> <<>>]
    ELSE IF rew.raised
    THEN [title_2_id |-> t2, articles |-> arts, stats |-> st, raised |-> TRUE,
          outcome |-> "error", log |-> rew.log]
    ELSE [title_2_id |-> t2,
          articles |-> InsertOrReplaceArticle(arts,
                           ArticleRow(entry_index,
                                      ReplaceChar(zim_entry.title, "_", " "),
                                      zstd_compress(rew.html))),
          stats |-> [st EXCEPT !.articles_processed = @ + 1],
          raised |-> FALSE, outcome |-> "stored", log |-> rew.log]

\* The page as stored: rewritten only with _include_images
NewPageContent(zim_entry, zim, outs) ==
    IF include_images
    THEN replace_img_and_css_html(PageContent(zim_entry), zim_entry, zim,
                                  compress_images, imagemagick_available, outs)
    ELSE [raised |-> FALSE, html |-> PageContent(zim_entry), log |-> <<>>]

\* The result of process_article_entry: the two tables and the stats after it,
\* whether it raised, whether it reached the INSERT into articles (outcome), and
\* the ImageMagick calls it made.
process_article_entry(zim_entry, entry_index, zim, t2i, arts, st, outs) ==
    StoreArticle(zim_entry, entry_index,
                 AssignTitle(t2i, entry_index, Lower(zim_entry.title)),
                 arts, st, NewPageContent(zim_entry, zim, outs))

-----
(* convert_zim *)

NewStats == [total_entries |-> 0, special_files_skipped |-> 0,
             redirects_processed |-> 0, articles_processed |-> 0,
             binary_files_skipped |-> 0, other_entries_skipped |-> 0,
             processing_errors |-> 0]

NoPrior == [valid |-> FALSE, title_2_id |-> {}, articles |-> {}, log |-> <<>>]

NoImgCall == [called |-> FALSE]

NoDisp == [branch |-> "none", outcome |-> "none", entry |-> -1]

\* The outcomes of ImageMagick that the runs of the pipeline meet
ToolOutcomes == {ToolOutcome("timeout", 0), ToolOutcome("ok", 9000)}

\* sqlite3.connect(db_path) on a new file, setup_db(con), the stats dict, num_done
StartRun ==
    /\ pc' = "loop"
    /\ id' = 0
    /\ title_2_id' = setup_db.title_2_id
    /\ articles' = setup_db.articles
    /\ committed' = Committed(setup_db.title_2_id, setup_db.articles, 0)
    /\ stats' = NewStats
    /\ num_done' = 0
    /\ disp' = NoDisp
    /\ hist' = <<>>
    /\ magick_log' = <<>>

\* The flags as __main__ sets them: --compress-images implies --include-images and
\* needs ImageMagick (exit(1) without it).
Flags == {<<FALSE, FALSE, FALSE>>, <<TRUE, FALSE, FALSE>>, <<TRUE, TRUE, TRUE>>}

Init ==
    /\ archive \in Archives
    /\ \E f \in Flags : /\ include_images = f[1]
                        /\ compress_images = f[2]
                        /\ imagemagick_available = f[3]
    /\ pc = "loop"
    /\ id = 0
    /\ title_2_id = setup_db.title_2_id
    /\ articles = setup_db.articles
    /\ committed = Committed(setup_db.title_2_id, setup_db.articles, 0)
    /\ stats = NewStats
    /\ num_done = 0
    /\ disp = NoDisp
    /\ hist = <<>>
    /\ magick_log = <<>>
    /\ prior = NoPrior
    /\ img_call = NoImgCall
    /\ pv = NoPageviews
    /\ par = NoParallel

InLoop == pc = "loop" /\ id < entry_count(archive)

Fetched == get_entry_by_id(archive, id)

zim_entry == Fetched.entry

Unchanged_env == UNCHANGED <<archive, include_images, compress_images,
                             imagemagick_available, prior, img_call,
                             pv, par>>

\* The end of one iteration without the periodic commit
EndOfIteration_NoCommit(t2i, arts) ==
    /\ num_done' = num_done + 1
    /\ committed' = committed

\* The end of one iteration that does not "continue": num_done += 1 and the
\* commit of every 500th one.
EndOfIteration(t2i, arts) ==
    /\ num_done' = num_done + 1
    /\ committed' = IF (num_done + 1) % CommitEvery = 0
                    THEN Committed(t2i, arts, id + 1)
                    ELSE committed

Count(st, field) == [st EXCEPT ![field] = @ + 1]

\* all_entry_gen with the try inside the loop left out: the failure of
\* get_entry_by_id ends the generator and the run
FetchFailed_Stops ==
    /\ InLoop /\ Fetched.raised
    /\ disp' = [branch |-> "not_yielded", outcome |-> "error", entry |-> id]
    /\ pc' = "aborted"
    /\ UNCHANGED <<id, stats, title_2_id, articles, num_done, committed, hist,
                   magick_log>>
    /\ Unchanged_env

\* all_entry_gen: get_entry_by_id raises; the entry is not yielded
FetchFailed ==
    /\ InLoop /\ Fetched.raised
    /\ stats' = Count(stats, "processing_errors")
    /\ id' = id + 1
    /\ disp' = [branch |-> "not_yielded", outcome |-> "error", entry |-> id]
    /\ UNCHANGED <<pc, title_2_id, articles, num_done, committed, hist, magick_log>>
    /\ Unchanged_env

\* if zim_entry.path.startswith('-'): ... continue
SkipSpecial ==
    /\ InLoop /\ ~Fetched.raised
    /\ StartsWith(zim_entry.path, <<"-">>)
    /\ stats' = Count(Count(stats, "total_entries"), "special_files_skipped")
    /\ id' = id + 1
    /\ disp' = [branch |-> "special", outcome |-> "skipped", entry |-> id]
    /\ UNCHANGED <<pc, title_2_id, articles, num_done, committed, hist, magick_log>>
    /\ Unchanged_env

\* if zim_entry.is_redirect: INSERT OR REPLACE of (dest_index, title.lower())
ProcessRedirect ==
    /\ InLoop /\ ~Fetched.raised
    /\ ~StartsWith(zim_entry.path, <<"-">>)
    /\ zim_entry.is_redirect
    /\ \E dest \in {get_redirect_entry(archive, zim_entry)} :
         \E key \in {Lower(zim_entry.title)} :
           IF dest.raised = "no"
           THEN /\ title_2_id' = InsertOrReplaceTitle(title_2_id,
                                                      TitleRow(dest.index, key))
                /\ stats' = Count(Count(stats, "total_entries"), "redirects_processed")
                /\ hist' = Append(hist, [kind |-> "redirect", key |-> key,
                                         id |-> dest.index, entry |-> id])
                /\ disp' = [branch |-> "redirect", outcome |-> "ok", entry |-> id]
           ELSE /\ title_2_id' = title_2_id
                /\ stats' = Count(Count(stats, "total_entries"), "processing_errors")
                /\ hist' = hist
                /\ disp' = [branch |-> "redirect", outcome |-> "error", entry |-> id]
    /\ id' = id + 1
    /\ EndOfIteration(title_2_id', articles)
    /\ UNCHANGED <<pc, articles, magick_log>>
    /\ Unchanged_env

\* try: process_article_entry(...) except Exception: processing_errors += 1
\* with the runs of ImageMagick ending in one of outcomes
CallProcessArticleWith(branch, outcomes) ==
    \E outs \in [1..Len(zim_entry.imgs) -> outcomes] :
        \E r \in {process_article_entry(zim_entry, id, archive, title_2_id, articles,
                                        Count(stats, "total_entries"), outs)} :
            /\ title_2_id' = r.title_2_id
            /\ articles' = r.articles
            /\ stats' = IF r.raised THEN Count(r.stats, "processing_errors") ELSE r.stats
            /\ hist' = Append(hist, [kind |-> "article", key |-> Lower(zim_entry.title),
                                     id |-> id, entry |-> id])
            /\ magick_log' = magick_log \o
                                [k \in 1..Len(r.log) |->
                                    [entry |-> id, src |-> r.log[k].src,
                                     outcome |-> r.log[k].outcome]]
            /\ disp' = [branch |-> branch, outcome |-> r.outcome, entry |-> id]
            /\ id' = id + 1
            /\ EndOfIteration(r.title_2_id, r.articles)
            /\ UNCHANGED pc
            /\ Unchanged_env

CallProcessArticle(branch) == CallProcessArticleWith(branch, ToolOutcomes)

\* elif zim_entry.path.startswith('A/')
ProcessWikipediaArticle ==
    /\ InLoop /\ ~Fetched.raised
    /\ ~StartsWith(zim_entry.path, <<"-">>)
    /\ ~zim_entry.is_redirect
    /\ StartsWith(zim_entry.path, <<"A", "/">>)
    /\ CallProcessArticle("article")

\* elif not path.startswith('A/') and len(path) > 2 and '/' in path
NonWikipediaPath(path) ==
    ~StartsWith(path, <<"A", "/">>) /\ Len(path) > 2 /\ Contains(path, <<"/">>)

\* ... if is_binary_content(path): binary_files_skipped += 1; continue
SkipBinary ==
    /\ InLoop /\ ~Fetched.raised
    /\ ~StartsWith(zim_entry.path, <<"-">>)
    /\ ~zim_entry.is_redirect
    /\ ~StartsWith(zim_entry.path, <<"A", "/">>)
    /\ NonWikipediaPath(zim_entry.path)
    /\ is_binary_content(zim_entry.path)
    /\ stats' = Count(Count(stats, "total_entries"), "binary_files_skipped")
    /\ id' = id + 1
    /\ disp' = [branch |-> "binary", outcome |-> "skipped", entry |-> id]
    /\ UNCHANGED <<pc, title_2_id, articles, num_done, committed, hist, magick_log>>
    /\ Unchanged_env

\* ... else: process_article_entry regardless of namespace
ProcessNonWikipediaArticle ==
    /\ InLoop /\ ~Fetched.raised
    /\ ~StartsWith(zim_entry.path, <<"-">>)
    /\ ~zim_entry.is_redirect
    /\ ~StartsWith(zim_entry.path, <<"A", "/">>)
    /\ NonWikipediaPath(zim_entry.path)
    /\ ~is_binary_content(zim_entry.path)
    /\ CallProcessArticle("article_ns")

\* The else branch making the entry findable before skipping it
SkipOther_WritesTitle ==
    /\ InLoop /\ ~Fetched.raised
    /\ ~StartsWith(zim_entry.path, <<"-">>)
    /\ ~zim_entry.is_redirect
    /\ ~StartsWith(zim_entry.path, <<"A", "/">>)
    /\ ~NonWikipediaPath(zim_entry.path)
    /\ stats' = Count(Count(stats, "total_entries"), "other_entries_skipped")
    /\ id' = id + 1
    /\ disp' = [branch |-> "other", outcome |-> "skipped", entry |-> id]
    /\ title_2_id' = AssignTitle(title_2_id, id, Lower(zim_entry.title))
    /\ EndOfIteration(title_2_id', articles)
    /\ UNCHANGED <<pc, articles, hist, magick_log>>
    /\ Unchanged_env

\* else: other_entries_skipped += 1
SkipOther ==
    /\ InLoop /\ ~Fetched.raised
    /\ ~StartsWith(zim_entry.path, <<"-">>)
    /\ ~zim_entry.is_redirect
    /\ ~StartsWith(zim_entry.path, <<"A", "/">>)
    /\ ~NonWikipediaPath(zim_entry.path)
    /\ stats' = Count(Count(stats, "total_entries"), "other_entries_skipped")
    /\ id' = id + 1
    /\ disp' = [branch |-> "other", outcome |-> "skipped", entry |-> id]
    /\ EndOfIteration(title_2_id, articles)
    /\ UNCHANGED <<pc, title_2_id, articles, hist, magick_log>>
    /\ Unchanged_env

\* The default "Ebook" page as formatted from the stats
default_content(st) ==
    [doc |-> "Welcome to WikiReader", articles_processed |-> st.articles_processed,
     total_entries |-> st.total_entries,
     binary_files_skipped |-> st.binary_files_skipped]

\* After the loop: the default "Ebook" page when no article is titled 'Ebook',
\* then con.commit(), con.close(), return stats
Finish ==
    /\ pc = "loop" /\ id = entry_count(archive)
    /\ LET add == CountArticlesByTitle(articles, T_Ebook) = 0
           arts == IF add
                   THEN InsertOrReplaceArticle(articles,
                            ArticleRow(default_id, T_Ebook,
                                       zstd_compress(default_content(stats))))
                   ELSE articles
           t2i == IF add
                  THEN InsertOrReplaceTitle(title_2_id,
                                            TitleRow(default_id, Lower(T_Ebook)))
                  ELSE title_2_id
       IN  /\ articles' = arts
           /\ title_2_id' = t2i
           /\ committed' = Committed(t2i, arts, id)
    /\ pc' = "done"
    /\ UNCHANGED <<id, stats, num_done, disp, hist, magick_log>>
    /\ Unchanged_env

Next ==
    \/ FetchFailed
    \/ SkipSpecial
    \/ ProcessRedirect
    \/ ProcessWikipediaArticle
    \/ SkipBinary
    \/ ProcessNonWikipediaArticle
    \/ SkipOther
    \/ Finish

Spec == Init /\ [][Next]_vars

-----------------------------------------------------------------------------
(* Running the pipeline again on the same archive into a new output database *)

\* __main__ once more: convert_zim(args.zim_file, args.output_db, articles) with
\* the same flags and a new output file; the finished run is kept for comparison.
Rerun ==
    /\ pc = "done" /\ ~prior.valid
    /\ prior' = [valid |-> TRUE, title_2_id |-> title_2_id, articles |-> articles,
                 log |-> magick_log]
    /\ StartRun
    /\ UNCHANGED <<archive, include_images, compress_images, imagemagick_available,
                   img_call, pv, par>>

NextRerun ==
    \/ Next
    \/ Rerun

SpecRerun == Init /\ [][NextRerun]_vars

-----------------------------------------------------------------------------
(* get_image_link called on its own, on one asset of each size *)

ProbeLinks == { <<".", ".", "/">> \o P_probe, P_probe, <<"I","/","n","o","n","e">> }

ProbeOutcomes ==
    {ToolOutcome("timeout", 0), ToolOutcome("exception", 0), ToolOutcome("failed", 0),
     ToolOutcome("ok", 0), ToolOutcome("ok", 9000), ToolOutcome("ok", 15359),
     ToolOutcome("ok", 15360), ToolOutcome("ok", 20000)}

InitImage ==
    /\ archive \in {<<ProbeNames[k]>> : k \in 1..Len(ProbeNames)}
    /\ include_images = TRUE
    /\ compress_images \in BOOLEAN
    /\ imagemagick_available \in BOOLEAN
    /\ pc = "image"
    /\ id = 0
    /\ title_2_id = setup_db.title_2_id
    /\ articles = setup_db.articles
    /\ committed = Committed(setup_db.title_2_id, setup_db.articles, 0)
    /\ stats = NewStats
    /\ num_done = 0
    /\ disp = NoDisp
    /\ hist = <<>>
    /\ magick_log = <<>>
    /\ prior = NoPrior
    /\ img_call = NoImgCall
    /\ pv = NoPageviews
    /\ par = NoParallel

\* image_link, size = get_image_link(src, zim, compress_images)
GetImageLink ==
    /\ pc = "image"
    /\ \E link \in ProbeLinks, outcome \in ProbeOutcomes :
         img_call' = [called |-> TRUE, link |-> link, outcome |-> outcome,
                      original_size |-> EntryOf(archive[1]).size,
                      result |-> get_image_link(link, archive, compress_images,
                                                imagemagick_available, outcome)]
    /\ UNCHANGED <<archive, include_images, compress_images, imagemagick_available,
                   pc, id, title_2_id, articles, stats, num_done, committed, disp,
                   hist, magick_log, prior, pv, par>>

NextImage == GetImageLink

SpecImage == InitImage /\ [][NextImage]_vars

-----------------------------------------------------------------------------
(* A store that answers the INSERT INTO title_2_id with an IntegrityError other
   than the UNIQUE one *)

\* The branch of the loop that calls process_article_entry on this entry
ArticleBranch(e) ==
    IF StartsWith(e.path, <<"A", "/">>) THEN "article"
    ELSE IF NonWikipediaPath(e.path) /\ ~is_binary_content(e.path) THEN "article_ns"
    ELSE "none"

\* The IntegrityError of the INSERT propagating out of convert_zim
UnexpectedIntegrityError_Propagates ==
    /\ InLoop /\ ~Fetched.raised
    /\ ~StartsWith(zim_entry.path, <<"-">>)
    /\ ~zim_entry.is_redirect
    /\ ArticleBranch(zim_entry) # "none"
    /\ stats' = Count(stats, "total_entries")
    /\ disp' = [branch |-> ArticleBranch(zim_entry), outcome |-> "integrity_error",
                entry |-> id]
    /\ pc' = "aborted"
    /\ UNCHANGED <<id, title_2_id, articles, num_done, committed, hist, magick_log>>
    /\ Unchanged_env

\* process_article_entry when the INSERT INTO title_2_id raises an IntegrityError
\* without 'UNIQUE constraint' in its message: logged and raised again, caught
\* by the except Exception of the loop, processing_errors += 1.
UnexpectedIntegrityError ==
    /\ InLoop /\ ~Fetched.raised
    /\ ~StartsWith(zim_entry.path, <<"-">>)
    /\ ~zim_entry.is_redirect
    /\ ArticleBranch(zim_entry) # "none"
    /\ stats' = Count(Count(stats, "total_entries"), "processing_errors")
    /\ disp' = [branch |-> ArticleBranch(zim_entry), outcome |-> "integrity_error",
                entry |-> id]
    /\ id' = id + 1
    /\ EndOfIteration(title_2_id, articles)
    /\ UNCHANGED <<pc, title_2_id, articles, hist, magick_log>>
    /\ Unchanged_env

\* The other ways ImageMagick fails: a nonzero return code, an output of
\* MAX_COMPRESSED_IMAGE_SIZE or more, an empty output
FaultToolOutcomes == {ToolOutcome("returncode", 0), ToolOutcome("ok", 20000),
                      ToolOutcome("ok", 0)}

\* process_article_entry on a page with an image that ImageMagick fails on
RecompressionFails ==
    /\ InLoop /\ ~Fetched.raised
    /\ ~StartsWith(zim_entry.path, <<"-">>)
    /\ ~zim_entry.is_redirect
    /\ ArticleBranch(zim_entry) # "none"
    /\ zim_entry.imgs # <<>>
    /\ CallProcessArticleWith(ArticleBranch(zim_entry), FaultToolOutcomes)

FaultArchives ==
    UNION {{a \in [1..n -> FaultEntries] : UniquePaths(a)} : n \in 1..MaxEntries}

InitFault ==
    /\ archive \in FaultArchives
    /\ \E f \in Flags : /\ include_images = f[1]
                        /\ compress_images = f[2]
                        /\ imagemagick_available = f[3]
    /\ pc = "loop"
    /\ id = 0
    /\ title_2_id = setup_db.title_2_id
    /\ articles = setup_db.articles
    /\ committed = Committed(setup_db.title_2_id, setup_db.articles, 0)
    /\ stats = NewStats
    /\ num_done = 0
    /\ disp = NoDisp
    /\ hist = <<>>
    /\ magick_log = <<>>
    /\ prior = NoPrior
    /\ img_call = NoImgCall
    /\ pv = NoPageviews
    /\ par = NoParallel

NextFault ==
    \/ Next
    \/ UnexpectedIntegrityError
    \/ RecompressionFails

\* Every statement of the loop and of the end of convert_zim returns (the
\* subprocess has a timeout), so the run does not stay in the loop for ever
\* without taking a step.  This is WF_vars(NextFault) written without ENABLED: a
\* step of NextFault is enabled exactly when pc = "loop".
Proceeds == []<>(pc # "loop") \/ []<><<NextFault>>_vars

SpecFault == InitFault /\ [][NextFault]_vars /\ Proceeds

-----------------------------------------------------------------------------
(* The long run: an archive of more entries than the loop commits after *)

LongArchive == [k \in 1..LongLen |-> LongName(k - 1)]

InitCommit ==
    /\ archive = LongArchive
    /\ \E f \in Flags : /\ include_images = f[1]
                        /\ compress_images = f[2]
                        /\ imagemagick_available = f[3]
    /\ pc = "loop"
    /\ id = 0
    /\ title_2_id = setup_db.title_2_id
    /\ articles = setup_db.articles
    /\ committed = Committed(setup_db.title_2_id, setup_db.articles, 0)
    /\ stats = NewStats
    /\ num_done = 0
    /\ disp = NoDisp
    /\ hist = <<>>
    /\ magick_log = <<>>
    /\ prior = NoPrior
    /\ img_call = NoImgCall
    /\ pv = NoPageviews
    /\ par = NoParallel

SpecCommit == InitCommit /\ [][Next]_vars

-----------------------------------------------------------------------------
(* parse_pageviews.py: the page-view utility *)

MIN_MONTLY_PAGE_COUNT == 500

\* valid_domains = ["en.wikipedia"]
valid_domains == {"en.wikipedia"}

\* One space-separated field of a dump line: its text and what int() makes of it
Field(txt, num) == [txt |-> txt, int |-> num]

NotANumber == -1

\* A line of the monthly dump: domain, page name, page id, access type, monthly
\* total, daily string
DumpLine(domain, page_name, page_id, id_num, count) ==
    <<Field(domain, NotANumber), Field(page_name, NotANumber), Field(page_id, id_num),
      Field("desktop", NotANumber), Field(ToString(count), count),
      Field("A1", NotANumber)>>

\* The lines the input stream can deliver
Lines ==
    { DumpLine("en.wikipedia", "Dog", "7", 7, 600),
      DumpLine("en.wikipedia", "Dog", "7", 7, 700),
      DumpLine("en.wikipedia", "Cat", "8", 8, 500),
      DumpLine("en.wikipedia", "Cat", "8", 8, 499),
      DumpLine("de.wikipedia", "Hund", "7", 7, 900),
      DumpLine("en.wikipedia", "Dog", "null", NotANumber, 800),
      <<Field("en.wikipedia", NotANumber), Field("Dog", NotANumber), Field("7", 7)>> }

\* f'{domain}-{page_wiki_id}'
WikiDomainId(domain, page_wiki_id) == domain \o "-" \o page_wiki_id

\* The continue statements of the loop body
LineSkipped(line) ==
    \/ Len(line) < 4
    \/ line[3].txt = "null"
    \/ line[Len(line) - 1].int < MIN_MONTLY_PAGE_COUNT
    \/ line[1].txt \notin valid_domains

\* pageview_stats[domain][page_wiki_id], 0 when the key is not in the dict
StatOf(pageview_stats, domain, page_wiki_id) ==
    LET hit == {s \in pageview_stats : s.domain = domain /\ s.page_wiki_id = page_wiki_id}
    IN  IF hit = {} THEN 0 ELSE (CHOOSE s \in hit : TRUE).count

\* What all the lines that passed the filters add up to for a key, over all the
\* runs against this database
TallyOf(tally, key) ==
    LET hit == {t \in tally : t.key = key}
    IN  IF hit = {} THEN 0 ELSE (CHOOSE t \in hit : TRUE).sum

\* The body of the for loop of parse_pageviews_xml_url on one line
parse_line(p, line) ==
    LET n == p.num_lines_parsed + 1
        domain == line[1].txt
        page_name == line[2].txt
        page_wiki_id == line[3].txt
        page_count == line[Len(line) - 1].int
        total_page_count == StatOf(p.pageview_stats, domain, page_wiki_id) + page_count
        wiki_domain_id == WikiDomainId(domain, page_wiki_id)
        rows == {r \in p.pageviews : r.wiki_domain_id # wiki_domain_id}
                   \cup {[wiki_domain_id |-> wiki_domain_id, wiki_id |-> line[3].int,
                          domain |-> domain, view_count |-> total_page_count]}
        titles == {r \in p.title_2_wiki_domain_id : r.title # page_name}
                   \cup {[wiki_domain_id |-> wiki_domain_id, title |-> page_name]}
    IN  IF LineSkipped(line)
        THEN [p EXCEPT !.num_lines_parsed = n, !.last = [passed |-> FALSE, key |-> ""]]
        ELSE [p EXCEPT
                !.num_lines_parsed = n,
                !.pageview_stats =
                    {s \in @ : ~(s.domain = domain /\ s.page_wiki_id = page_wiki_id)}
                       \cup {[domain |-> domain, page_wiki_id |-> page_wiki_id,
                              count |-> total_page_count]},
                !.pageviews = rows,
                !.title_2_wiki_domain_id = titles,
                !.committed = IF n % 10000 = 0
                              THEN [pageviews |-> rows, title_2_wiki_domain_id |-> titles]
                              ELSE @,
                !.tally = {t \in @ : t.key # wiki_domain_id}
                             \cup {[key |-> wiki_domain_id,
                                    sum |-> TallyOf(@, wiki_domain_id) + page_count]},
                !.last = [passed |-> TRUE, key |-> wiki_domain_id]]

\* __main__ of parse_pageviews.py up to the call of parse_pageviews_xml_url, on a
\* database file that holds the given tables (none on the first run)
StartPageviews(run, pageviews, titles, tally) ==
    [pc |-> "parse", run |-> run, num_lines_parsed |-> 0, pageview_stats |-> {},
     pageviews |-> pageviews, title_2_wiki_domain_id |-> titles,
     committed |-> [pageviews |-> pageviews, title_2_wiki_domain_id |-> titles],
     tally |-> tally, last |-> [passed |-> FALSE, key |-> ""]]

ConversionIdle == UNCHANGED <<archive, include_images, compress_images,
                              imagemagick_available, pc, id, title_2_id, articles,
                              stats, num_done, committed, disp, hist, magick_log,
                              prior, img_call, par>>

\* for line in input_fh: one more line of the stream
ParseLine ==
    /\ pv.pc = "parse" /\ pv.num_lines_parsed < MaxLines
    /\ \E line \in Lines : pv' = parse_line(pv, line)
    /\ ConversionIdle

\* The stream ends: print('Done with bz2 file'); con.commit(); print("done")
EndOfDump ==
    /\ pv.pc = "parse"
    /\ pv' = [pv EXCEPT !.pc = "done",
                        !.committed = [pageviews |-> pv.pageviews,
                                       title_2_wiki_domain_id |->
                                           pv.title_2_wiki_domain_id]]
    /\ ConversionIdle

\* The utility is started again on the same --database-path with another dump
RunAgain ==
    /\ pv.pc = "done" /\ pv.run < MaxRuns
    /\ pv' = StartPageviews(pv.run + 1, pv.committed.pageviews,
                            pv.committed.title_2_wiki_domain_id, pv.tally)
    /\ ConversionIdle

InitPageviews ==
    /\ archive = <<>>
    /\ include_images = FALSE
    /\ compress_images = FALSE
    /\ imagemagick_available = FALSE
    /\ pc = "off"
    /\ id = 0
    /\ title_2_id = {}
    /\ articles = {}
    /\ committed = Committed({}, {}, 0)
    /\ stats = NewStats
    /\ num_done = 0
    /\ disp = NoDisp
    /\ hist = <<>>
    /\ magick_log = <<>>
    /\ prior = NoPrior
    /\ img_call = NoImgCall
    /\ pv = StartPageviews(1, {}, {}, {})
    /\ par = NoParallel

NextPageviews == ParseLine \/ EndOfDump \/ RunAgain

SpecPageviews == InitPageviews /\ [][NextPageviews]_vars

-----------------------------------------------------------------------------
(* Parallel mode: the reconcile phase of the partition-and-merge orchestrator *)

\* The shards of the run: A and B of the merge scenario and the other workers'
ShardNames == {"A", "B"} \cup {"S" \o ToString(k) : k \in 3..MaxShards}

\* The title index a worker can have produced in its shard database
ShardTitles(s) ==
    IF s = "A" THEN {{TitleRow(5, "x")}, {TitleRow(5, "x"), TitleRow(4, "a")}}
    ELSE IF s = "B" THEN {{TitleRow(9, "x")}, {TitleRow(9, "x"), TitleRow(8, "b")}}
    ELSE {{}, {TitleRow(12, s)}}

\* A shard database a worker owns: running until its batch is done, complete
\* until it is merged, discarded after
Shard(state, rows) == [state |-> state, title_2_id |-> rows]

\* The same union with insert-or-replace
InsertIfAbsent_Replaces(final, rows) ==
    {f \in final : \A r \in rows : r.title_lower_case # f.title_lower_case} \cup rows

\* Union of a shard's table into the final one, insert-if-absent by primary key
InsertIfAbsent(final, rows) ==
    final \cup {r \in rows : \A f \in final : f.title_lower_case # r.title_lower_case}

ConversionAndPageviewsIdle ==
    UNCHANGED <<archive, include_images, compress_images, imagemagick_available, pc,
                id, title_2_id, articles, stats, num_done, committed, disp, hist,
                magick_log, prior, img_call, pv>>

\* A worker finishes its batch and returns control with its shard's location
WorkerCompletes(s) ==
    /\ par.pc = "reconcile"
    /\ par.shards[s].state = "running"
    /\ par' = [par EXCEPT !.shards[s].state = "complete"]
    /\ ConversionAndPageviewsIdle

\* Reconcile one completed shard: its table is unioned into the final database,
\* then the shard database is discarded. One shard at a time.
MergeShard(s) ==
    /\ par.pc = "reconcile"
    /\ par.shards[s].state = "complete"
    /\ LET merged == [par EXCEPT
                        !.final = InsertIfAbsent(@, par.shards[s].title_2_id),
                        !.shards[s] = Shard("discarded", {}),
                        !.order = Append(@, s)]
       IN  par' = [merged EXCEPT
                     !.pc = IF \A t \in ShardNames : merged.shards[t].state = "discarded"
                            THEN "done" ELSE "reconcile"]
    /\ ConversionAndPageviewsIdle

InitMerge ==
    /\ archive = <<>>
    /\ include_images = FALSE
    /\ compress_images = FALSE
    /\ imagemagick_available = FALSE
    /\ pc = "off"
    /\ id = 0
    /\ title_2_id = {}
    /\ articles = {}
    /\ committed = Committed({}, {}, 0)
    /\ stats = NewStats
    /\ num_done = 0
    /\ disp = NoDisp
    /\ hist = <<>>
    /\ magick_log = <<>>
    /\ prior = NoPrior
    /\ img_call = NoImgCall
    /\ pv = NoPageviews
    /\ \E rows \in [ShardNames -> UNION {ShardTitles(s) : s \in ShardNames}] :
          /\ \A s \in ShardNames : rows[s] \in ShardTitles(s)
          /\ par = [pc |-> "reconcile",
                    shards |-> [s \in ShardNames |-> Shard("running", rows[s])],
                    final |-> {}, order |-> <<>>]

NextMerge == \E s \in ShardNames : WorkerCompletes(s) \/ MergeShard(s)

\* Every worker finishes and every completed shard is merged
SpecMerge ==
    /\ InitMerge /\ [][NextMerge]_vars
    /\ \A s \in ShardNames : WF_vars(WorkerCompletes(s)) /\ WF_vars(MergeShard(s))

-----------------------------------------------------------------------------
(* Archives with entries titled like the default "Ebook" page *)

EbookArchives ==
    UNION {{a \in [1..n -> EbookEntries] : UniquePaths(a)} : n \in 1..MaxEntries}

InitEbook ==
    /\ archive \in EbookArchives
    /\ \E f \in Flags : /\ include_images = f[1]
                        /\ compress_images = f[2]
                        /\ imagemagick_available = f[3]
    /\ pc = "loop"
    /\ id = 0
    /\ title_2_id = setup_db.title_2_id
    /\ articles = setup_db.articles
    /\ committed = Committed(setup_db.title_2_id, setup_db.articles, 0)
    /\ stats = NewStats
    /\ num_done = 0
    /\ disp = NoDisp
    /\ hist = <<>>
    /\ magick_log = <<>>
    /\ prior = NoPrior
    /\ img_call = NoImgCall
    /\ pv = NoPageviews
    /\ par = NoParallel

SpecEbook == InitEbook /\ [][Next]_vars

-----------------------------------------------------------------------------
(* Properties *)

\* The entry that the last iteration of the loop processed
LastEntry == EntryOf(archive[disp.entry + 1])

\* The rows of title_2_id under one key
RowsOf(key) == {r \in title_2_id : r.title_lower_case = key}

LastWrite == hist[Len(hist)]

\* An earlier write of the key of the last write exists
Rewritten_key == \E k \in 1..(Len(hist) - 1) : hist[k].key = LastWrite.key

C2_Uniqueness ==
    /\ \A r1, r2 \in title_2_id : r1.title_lower_case = r2.title_lower_case => r1 = r2
    /\ \A a1, a2 \in articles : (a1.id = a2.id \/ a1.title = a2.title) => a1 = a2

\* C2 witness: the run is over, a key was written twice with different ids and
\* two articles with the same display title were stored.
C2_Witness ==
    /\ pc = "done"
    /\ \E j, k \in 1..Len(hist) : hist[j].key = hist[k].key /\ hist[j].id # hist[k].id
    /\ \E j, k \in 1..Len(archive) : archive[j] = "CDog" /\ archive[k] = "WDog"

CounterSum ==
    stats.special_files_skipped + stats.redirects_processed + stats.articles_processed
        + stats.binary_files_skipped + stats.other_entries_skipped
        + stats.processing_errors

\* C3: at the end of the run the counters special skipped, redirects processed,
\* articles processed, binary skipped, other skipped and errors sum to the number
\* of entries of the archive.
C3_CountersSumToN == pc = "done" => CounterSum = entry_count(archive)

Filtered == disp.outcome \in {"invalid_title", "minimal_content"}

\* C4: an entry rejected by the title filter or the content filter leaves no row
\* in either table: no title_2_id row for its title, no articles row.
C4_FilteredLeavesNoRow ==
    (pc = "loop" /\ Filtered)
        => /\ TitleRow(disp.entry, Lower(LastEntry.title)) \notin title_2_id
           /\ \A a \in articles : a.id # disp.entry

\* C5: no row of articles comes from an entry whose decoded body is shorter than
\* the minimum content length or whose title is empty or a single character.
C5_FilterThresholds ==
    \A a \in articles :
        a.id # default_id
            => /\ DecodedLen(EntryOf(archive[a.id + 1])) >= MinContentLength
               /\ Len(EntryOf(archive[a.id + 1]).title) >= MinTitleLength

\* C5 witness: the run is over, the archive holds a short page and a page with a
\* one-character title, and an article of the archive is stored.
C5_Witness ==
    /\ pc = "done"
    /\ \E j, k \in 1..Len(archive) : archive[j] = "Cat" /\ archive[k] = "X"
    /\ \E a \in articles : a.id # default_id

\* The ceiling of the active compression policy
ActiveCeiling ==
    IF compress_images THEN MAX_COMPRESSED_IMAGE_SIZE ELSE MAX_IMAGE_SIZE

Inlined == img_call.called /\ ~img_call.result.raised /\ ~img_call.result.none

FirstMatchingRule(e) ==
    IF StartsWith(e.path, <<"-">>) THEN "special"
    ELSE IF e.is_redirect THEN "redirect"
    ELSE IF StartsWith(e.path, <<"A", "/">>) THEN "article"
    ELSE IF Contains(e.path, <<"/">>) /\ Len(e.path) > 2 /\ ~is_binary_content(e.path)
    THEN "article_ns"
    ELSE IF is_binary_content(e.path) THEN "binary"
    ELSE "other"

\* C7: the disposition that the conversion loop chooses for an entry is the first
\* matching rule of Special, Redirect, Article (prefix), Article (other
\* namespace, not binary), Binary, Other.
C7_FirstMatchWins ==
    disp.branch \in {"special", "redirect", "article", "article_ns", "binary", "other"}
        => disp.branch = FirstMatchingRule(LastEntry)

\* C8: once a row with id i is in articles, a row with id i stays there for the
\* rest of the run.
C8_RowStays == [][\A a \in articles : \E b \in articles' : b.id = a.id]_vars

\* C8 as amended: a row of articles stays as it is unless the step stores a new
\* row with the same id or with the same display title (INSERT OR REPLACE then
\* takes its place); a row stored under another id and another title leaves it.
C8_RowStaysUnlessReplaced ==
    [][\A a \in articles :
          a \notin articles'
              => \E b \in articles' \ articles : b.id = a.id \/ b.title = a.title]_vars

\* C8 witness: an article was stored whose display title an earlier stored article
\* had, and the row of the earlier one is gone.
C8_Witness ==
    /\ disp.outcome = "stored"
    /\ \E j \in 0..(disp.entry - 1) :
          /\ archive[j + 1] \in {"CDog", "WDog"}
          /\ LastEntry.title = EntryOf(archive[j + 1]).title
          /\ \A a \in articles : a.id # j
    /\ \E a \in articles : a.id = disp.entry

SameTables == title_2_id = prior.title_2_id /\ articles = prior.articles

ExampleArchive == <<"redirDog", "Cat", "Canine">>

\* C10: the archive (redirect "Dog" to entry 2, "Cat" with 50 bytes, "Canine"
\* with 500 bytes) ends with title_2_id = {dog -> 2, canine -> 2}, articles = one
\* row (2, "Canine"), 1 redirect processed, 1 article processed, 1 other skip.
C10_Example ==
    (archive = ExampleArchive /\ include_images /\ pc = "done")
        => /\ title_2_id = {TitleRow(2, <<"d","o","g">>),
                            TitleRow(2, <<"c","a","n","i","n","e">>)}
           /\ {<<a.id, a.title>> : a \in articles} = {<<2, <<"C","a","n","i","n","e">>>>}
           /\ stats.redirects_processed = 1
           /\ stats.articles_processed = 1
           /\ stats.other_entries_skipped = 1

ErrorOutcomes == {"error", "integrity_error"}

\* C11: an error local to one entry (fetch, redirect resolution, decoding,
\* rewriting, storing) never stops the run: the step of that entry adds exactly
\* one to processing_errors and moves on to the next entry, a step without an
\* error adds none, and the run reaches its final commit with every entry visited.
C11_ErrorsDoNotStop ==
    /\ [][(pc = "loop" /\ pc' = "loop")
             => /\ id' = id + 1
                /\ stats'.processing_errors
                       = stats.processing_errors
                           + (IF disp'.outcome \in ErrorOutcomes THEN 1 ELSE 0)]_vars
    /\ [](pc # "aborted")
    /\ <>(pc = "done" /\ id = entry_count(archive))

\* C11 witness: the run is over, the entry that does not decode was counted as an
\* error and an article after it is stored.
C11_Witness ==
    /\ pc = "done"
    /\ stats.processing_errors > 0
    /\ \E j, k \in 1..Len(archive) :
          /\ j < k
          /\ archive[j] = "Bad"
          /\ \E a \in articles : a.id = k - 1

\* C12: an IntegrityError of the title_2_id INSERT other than the UNIQUE one is
\* fatal: the run aborts instead of going on with the next entry.
C12_IntegrityErrorAborts == disp.outcome = "integrity_error" => pc = "aborted"

\* C12 as amended: the IntegrityError ends the processing of that entry only: no
\* row of either table changes, processing_errors grows by one and the loop goes
\* on with the next entry.
C12_IntegrityErrorSkipsEntry ==
    [][(disp' # disp /\ disp'.outcome = "integrity_error")
          => /\ title_2_id' = title_2_id
             /\ articles' = articles
             /\ stats'.processing_errors = stats.processing_errors + 1
             /\ stats'.articles_processed = stats.articles_processed
             /\ pc' = "loop"
             /\ id' = id + 1]_vars

\* C12 witness: the INSERT of the first entry raised the IntegrityError, it was
\* counted and the loop is at the next entry.
C12_Witness ==
    /\ disp.outcome = "integrity_error"
    /\ pc = "loop" /\ id = disp.entry + 1
    /\ stats.processing_errors = 1

\* The ImageMagick calls made for the entry of the last iteration
CallsOfLast == {k \in 1..Len(magick_log) : magick_log[k].entry = disp.entry}

\* The outcomes after which compress_image_with_imagemagick returns None, None
\* or data that get_image_link does not use
RecompressionFailed(outcome) ==
    ~(outcome.kind = "ok" /\ outcome.size > 0 /\ outcome.size < MAX_COMPRESSED_IMAGE_SIZE)

AssetOf(src) == get_entry_by_path(archive, StripParents(src))

StoredRowOfLast == CHOOSE a \in articles : a.id = disp.entry

\* C13: when ImageMagick fails, times out or returns a result that is not under
\* the compressed ceiling, the image is handled by the 300 KiB check on the
\* original bytes (inlined as they are up to 300 KiB, left as a reference above)
\* and the page that holds it is stored all the same.
C13_FallbackToOriginal ==
    (/\ pc = "loop" /\ disp.branch \in {"article", "article_ns"}
     /\ \A j \in 1..Len(LastEntry.imgs) : AssetOf(LastEntry.imgs[j]).raised # "Exception"
     /\ \E k \in CallsOfLast : RecompressionFailed(magick_log[k].outcome))
        => /\ disp.outcome = "stored"
           /\ \E a \in articles : a.id = disp.entry
           /\ \A j \in 1..Len(LastEntry.imgs) :
                 (\E k \in CallsOfLast :
                     /\ magick_log[k].src = LastEntry.imgs[j]
                     /\ RecompressionFailed(magick_log[k].outcome))
                    => StoredRowOfLast.page_content_zstd.data.imgs[j]
                         = IF AssetOf(LastEntry.imgs[j]).entry.size > MAX_IMAGE_SIZE
                           THEN SrcRef(LastEntry.imgs[j])
                           ELSE DataLink(StripParents(LastEntry.imgs[j]),
                                         get_mime_type(AssetOf(LastEntry.imgs[j]).entry.path),
                                         "original",
                                         AssetOf(LastEntry.imgs[j]).entry.size)

\* C13 witness: ImageMagick timed out on the image of the page, the original
\* bytes are inlined and the page is stored.
C13_Witness ==
    /\ pc = "loop" /\ disp.outcome = "stored"
    /\ \E k \in CallsOfLast : magick_log[k].outcome.kind = "timeout"
    /\ \E a \in articles :
          /\ a.id = disp.entry
          /\ Len(a.page_content_zstd.data.imgs) = 1
          /\ a.page_content_zstd.data.imgs[1].kind = "data"
          /\ a.page_content_zstd.data.imgs[1].payload = "original"

\* The entries that wrote to the store and are not in the committed database
UncommittedWriters ==
    {hist[k].entry : k \in {j \in 1..Len(hist) : hist[j].entry >= committed.upto}}

\* C14: the committed database is always the store as it was after some whole
\* number of entries (a commit takes the two tables as they are at the end of an
\* iteration, never in the middle of an entry), and at most 500 entries that
\* wrote to the store are uncommitted.
C14_CommittedPrefix ==
    /\ [][committed' # committed
             => /\ committed'.title_2_id = title_2_id'
                /\ committed'.articles = articles'
                /\ committed'.upto = id'
                /\ committed'.upto >= committed.upto]_vars
    /\ [](/\ committed.upto <= id
          /\ (committed.upto = id
                 => /\ committed.title_2_id = title_2_id
                    /\ committed.articles = articles)
          /\ Cardinality(UncommittedWriters) <= CommitEvery)

\* C14 witness: the loop committed once, at its 500th counted entry, and entries
\* after that have written to the store without being committed.
C14_Witness ==
    /\ pc = "loop"
    /\ num_done > CommitEvery
    /\ committed.upto > 0 /\ committed.upto < id
    /\ committed.title_2_id # title_2_id
    /\ Cardinality(committed.title_2_id) >= CommitEvery - 2
    /\ UncommittedWriters # {}

\* C15: articles_processed grows by one exactly in the iterations that write the
\* article row of their entry; an entry that a filter rejects, or that fails
\* before the INSERT, leaves the counter as it is, and so does the end of the run.
C15_CountsStores ==
    /\ [][(pc = "loop" /\ pc' = "loop")
             => stats'.articles_processed
                  = stats.articles_processed
                      + (IF \E a \in articles' : a.id = id THEN 1 ELSE 0)]_vars
    /\ [][pc' = "done" => stats'.articles_processed = stats.articles_processed]_vars
    /\ [](id = 0 => stats.articles_processed = 0)

\* C15 witness: the first entry was rejected by a filter or failed, a later one
\* was stored, and the counter is 1.
C15_Witness ==
    /\ pc = "loop" /\ disp.outcome = "stored" /\ disp.entry >= 1
    /\ archive[1] \in {"Cat", "X", "Bad"}
    /\ stats.articles_processed = 1
    /\ stats.processing_errors + stats.total_entries > 1

\* The entry that the step from this state processes
ThisEntry == EntryOf(archive[id + 1])

\* C16: an iteration on an entry classified as Special, Binary or Other (or on an
\* entry that could not be fetched) changes neither table; title_2_id is written
\* only in the iteration of a redirect, with the row (target id, lowercased
\* title), or of an entry processed as an article, with the row (own id,
\* lowercased title); articles is written only in the iteration of an article.
C16_OnlyRedirectsAndArticlesWrite ==
    [][(pc = "loop" /\ pc' = "loop")
          => /\ disp'.branch \in {"special", "binary", "other", "not_yielded"}
                   => (title_2_id' = title_2_id /\ articles' = articles)
             /\ title_2_id' # title_2_id
                   => \/ /\ disp'.branch = "redirect"
                         /\ ThisEntry.is_redirect
                         /\ TitleRow(get_redirect_entry(archive, ThisEntry).index,
                                     Lower(ThisEntry.title)) \in title_2_id'
                      \/ /\ disp'.branch \in {"article", "article_ns"}
                         /\ ~ThisEntry.is_redirect
                         /\ TitleRow(id, Lower(ThisEntry.title)) \in title_2_id'
             /\ articles' # articles => disp'.branch \in {"article", "article_ns"}]_vars

\* C16 witness: an entry classified as Other was skipped while both tables held
\* rows.
C16_Witness ==
    /\ pc = "loop" /\ disp.branch = "other"
    /\ title_2_id # {} /\ articles # {}


\* C18: after any sequence of input lines, over any number of runs of the page-view
\* utility against one database, the pageviews row of a key holds the sum of the
\* view counts of all the lines seen so far for that key that passed the filters.
C18_CumulativeCounts ==
    pv.pc # "off" =>
        /\ \A r \in pv.pageviews :
               r.view_count = TallyOf(pv.tally, r.wiki_domain_id)
        /\ \A t \in pv.tally : \E r \in pv.pageviews : r.wiki_domain_id = t.key

\* Within one run the row of a key written by this run holds the run's sum
PageviewsRowsFollowDict ==
    pv.pc # "off" =>
        \A s \in pv.pageview_stats :
            \E r \in pv.pageviews :
                /\ r.wiki_domain_id = WikiDomainId(s.domain, s.page_wiki_id)
                /\ r.view_count = s.count

\* A second run has written a key that the first run wrote too
SecondRunWroteAgain ==
    /\ pv.pc # "off" /\ pv.run = 2
    /\ \E s \in pv.pageview_stats :
          TallyOf(pv.tally, WikiDomainId(s.domain, s.page_wiki_id)) > s.count


\* The first of shards A and B to be merged
FirstOfAB == IF \E i \in 1..Len(par.order) :
                    /\ par.order[i] = "A"
                    /\ \A j \in 1..i : par.order[j] # "B"
             THEN "A" ELSE "B"

\* C17: with "x" -> 5 in shard A and "x" -> 9 in shard B, merged one at a time with
\* insert-if-absent, the final title index ends with exactly one row for "x", whose
\* id is that of the shard merged first, and every shard ends merged and discarded.
C17_FirstMergedShardWins ==
    /\ [](par.pc = "done" =>
            /\ \A s \in ShardNames : par.shards[s].state = "discarded"
            /\ Len(par.order) = Cardinality(ShardNames)
            /\ Cardinality({r \in par.final : r.title_lower_case = "x"}) = 1
            /\ \A r \in par.final :
                  r.title_lower_case = "x" =>
                      r.id = (IF FirstOfAB = "A" THEN 5 ELSE 9))
    /\ <>(par.pc = "done")

\* B was merged before A, and "x" belongs to 9
C17_Witness ==
    /\ par.pc = "done"
    /\ FirstOfAB = "B"
    /\ TitleRow(9, "x") \in par.final


\* The title of the entry of this step is taken by another id
TitleConflict ==
    \E r \in title_2_id : r.title_lower_case = Lower(ThisEntry.title) /\ r.id # id

\* C19: when the INSERT of an article's title hits the uniqueness conflict and the
\* owner differs from the incoming id, only the row of that lowercased title is
\* repointed; every row of another title keeps its id.
C19_OnlyConflictingTitleRepointed ==
    [][(pc = "loop" /\ pc' = "loop" /\ disp'.branch \in {"article", "article_ns"}
          /\ TitleConflict)
          => \A r \in title_2_id :
                 r.title_lower_case # Lower(ThisEntry.title) => r \in title_2_id']_vars

\* The step into this state repointed the row of a title other than the entry's
AliasRepointed ==
    /\ pc = "loop" /\ disp.branch = "article" /\ disp.outcome = "stored"
    /\ \E r \in title_2_id :
          /\ r.id = disp.entry
          /\ r.title_lower_case # Lower(EntryOf(archive[disp.entry + 1]).title)

\* C20: an entry processed as an article whose processing ends in an error (its
\* content does not decode, an asset lookup raises while rewriting) is skipped as
\* a whole: both tables are after the iteration what they were before it, and of
\* the outcome counters only processing_errors changes.
C20_FailedEntryLeavesNoTrace ==
    [][(pc = "loop" /\ pc' = "loop" /\ disp'.branch \in {"article", "article_ns"}
          /\ disp'.outcome = "error")
          => /\ title_2_id' = title_2_id
             /\ articles' = articles
             /\ stats' = [stats EXCEPT !.processing_errors = @ + 1,
                                       !.total_entries = stats'.total_entries]]_vars

\* The entry that does not decode left its title in title_2_id
FailedEntryKeptTitle ==
    /\ pc = "loop" /\ disp.branch = "article" /\ disp.outcome = "error"
    /\ TitleRow(disp.entry, Lower(EntryOf(archive[disp.entry + 1]).title)) \in title_2_id
    /\ \A a \in articles : a.id # disp.entry


\* C21: at the end of the run every id of title_2_id is the id of a row of
\* articles: no title, of an article or of a redirect, maps to an id for which no
\* article was stored.
C21_TitleIdsAreArticleIds ==
    pc = "done" => \A r \in title_2_id : \E a \in articles : a.id = r.id

\* The run ended with the title of a redirect on an id without an article row
RedirectAliasDangles ==
    /\ pc = "done"
    /\ \E k \in 1..Len(archive) :
          /\ EntryOf(archive[k]).is_redirect
          /\ \E r \in title_2_id :
                /\ r.title_lower_case = Lower(EntryOf(archive[k]).title)
                /\ \A a \in articles : a.id # r.id


\* C22: adding the default "Ebook" page at the end of convert_zim conflicts with
\* no archive entry: every row of articles and every row of title_2_id written in
\* the loop, the row of the title "ebook" included, is still there with its id
\* after it.
C22_DefaultPageKeepsArchiveRows ==
    [][(pc = "loop" /\ pc' = "done")
          => /\ \A a \in articles : a \in articles'
             /\ \A r \in title_2_id : r \in title_2_id']_vars

\* The run ended with the article titled 'ebook' stored and its title on the
\* default page
EbookTitleTaken ==
    /\ pc = "done"
    /\ \E a \in articles : a.title = <<"e","b","o","o","k">> /\ a.id # default_id
    /\ TitleRow(default_id, Lower(T_Ebook)) \in title_2_id

====
